---- MODULE Spec2Model ----
(***************************************************************************)
(* Shared-memory lock protocol of raw_sync: the capability traits and the  *)
(* guards of src/locks/mod.rs over the named-mutex backend of              *)
(* src/locks/windows/mod.rs.                                               *)
(*                                                                         *)
(* A "thread" is one party attached to a record: a thread of some process  *)
(* with its own handles (Box<dyn LockImpl> holds a raw HANDLE and an       *)
(* UnsafeCell, so a handle never leaves the thread that built it).         *)
(* The operating system's named mutex is modelled by what the backend's    *)
(* calls do to it: it is owned by a thread, it is recursive (a wait by the *)
(* owner is satisfied at once and counted), it is abandoned when its owner *)
(* terminates, and it lives while some handle to it is open.               *)
(***************************************************************************)
EXTENDS Integers, FiniteSets, Sequences, TLC

\* ------------------------------------------------------------- bounds
NumThreads == 2
NumIds == 1
MaxGuards == 2
Iterations == 2

Threads == 1..NumThreads
\* One record: new() draws an identifier that names no live object, so
\* records do not share an object and do not interact.
Records == {1}
Ids == 1..NumIds
\* One handle slot per thread is enough for every thread to attach once;
\* a thread may also take a slot another thread has not used.
NumHandles == NumThreads
Handles == 1..NumHandles

NoThread == 0
NoHandle == 0
NoId == 0

\* ------------------------------------------------------------- state
VARIABLES
    obj,      \* the OS namespace: mutex_<id> -> the named mutex object
    mem,      \* the shared lock records: the u32 identifier each one holds
    handle,   \* Mutex { handle, data }: the open handles, by slot, with the
              \* thread that holds each
    alive,    \* whether the thread still runs
    wait,     \* the WaitForSingleObject(handle, timeout) a thread is inside
    ret,      \* the most recent return: the call and the value it returned
    excl,     \* live LockGuard values borrowing each handle
    shared,   \* live ReadLockGuard values borrowing each handle
    data,     \* the protected datum of each record (a shared counter)
    pc,       \* counter workers: position in the loop
    tmp,      \* counter workers: the value read under the guard
    iter      \* counter workers: completed iterations

libvars == <<obj, mem, handle, alive, wait, ret, excl, shared>>
clientvars == <<data, pc, tmp, iter>>
vars == <<obj, mem, handle, alive, wait, ret, excl, shared, data, pc, tmp, iter>>

\* ------------------------------------------------------------- values
NoObj == [exists |-> FALSE, owner |-> NoThread, count |-> 0, abandoned |-> FALSE]
Closed == [open |-> FALSE, thr |-> NoThread, id |-> NoId, rec |-> 0]
NoWait == [h |-> NoHandle, timeout |-> "none"]
NoVal == [type |-> "none", tag |-> "none", guard |-> NoHandle, err |-> "none"]
NoRet == [op |-> "none", val |-> NoVal]
Returned(op, v) == [op |-> op, val |-> v]

ErrPoisoned == "A thread holding the mutex has left it in a poisened state"
ErrAcquire == "Failed to aquire lock with value : 0xFFFFFFFF"
ErrRelease == "Could not release mutex as we did not own it"
ErrOpen == "Failed to open mutex"
ErrTimeout == "Failed to aquire lock: timeout"

\* enum LockResult / enum ReadLockResult: Ok(guard), Abandoned(guard), Failed(err)
LockResult(tag, g, e) == [type |-> "LockResult", tag |-> tag, guard |-> g, err |-> e]
ReadLockResult(tag, g, e) == [type |-> "ReadLockResult", tag |-> tag, guard |-> g, err |-> e]
\* crate::Result<T>: Ok(value) or Err(boxed error); what is the type T of the value
Result(what, tag, g, e) == [type |-> what, tag |-> tag, guard |-> g, err |-> e]
\* a panic unwinding out of the call
Panic(msg) == [type |-> "Panic", tag |-> "Panic", guard |-> NoHandle, err |-> msg]

\* enum Timeout { Infinite, Val(Duration) }
Timeout == {"Infinite", "Val"}

HoldsGuard(r) == r.guard # NoHandle /\ r.tag \in {"Ok", "Abandoned"}

\* ------------------------------------------------- the OS named mutex
\* CreateMutexExA(NULL, name, CREATE_MUTEX_INITIAL_OWNER, MUTEX_ALL_ACCESS):
\* a new object owned by the caller, or, when the name is already in use,
\* a handle to the existing object, whose ownership is left as it is.
CreateMutexExA(o, t, id) ==
    IF o[id].exists THEN o
    ELSE [o EXCEPT ![id] = [exists |-> TRUE, owner |-> t, count |-> 1,
                            abandoned |-> FALSE]]

\* ReleaseMutex succeeds (non-zero) only for the owning thread
ReleaseOwned(o, t, id) == o[id].exists /\ o[id].owner = t

\* ReleaseMutex by the owner: one level of ownership is given up
ReleaseMutex(o, t, id) ==
    IF o[id].count > 1
    THEN [o EXCEPT ![id].count = @ - 1]
    ELSE [o EXCEPT ![id].count = 0, ![id].owner = NoThread]

\* the object is signalled for thread t: unowned, or already owned by t
Signalled(o, t, id) == o[id].exists /\ o[id].owner \in {NoThread, t}

\* The statuses WaitForSingleObject can return to thread t now. A wait
\* that cannot be satisfied stays blocked, or expires if it is bounded;
\* WAIT_FAILED is the OS refusing the wait.
WaitStatuses(o, t, id, timeout) ==
    (IF Signalled(o, t, id)
     THEN {IF o[id].owner = NoThread /\ o[id].abandoned
           THEN "WAIT_ABANDONED" ELSE "WAIT_OBJECT_0"}
     ELSE IF timeout = "Val" THEN {"WAIT_TIMEOUT"} ELSE {})
    \cup {"WAIT_FAILED"}

\* the object after a wait returned status to thread t
WaitForSingleObject(o, t, id, status) ==
    IF status \in {"WAIT_OBJECT_0", "WAIT_ABANDONED"}
    THEN [o EXCEPT ![id].owner = t, ![id].count = @ + 1, ![id].abandoned = FALSE]
    ELSE o

\* open handles to an object
Refs(hs, id) == {h \in Handles : hs[h].open /\ hs[h].id = id}

\* CloseHandle that destroys the object whatever other references it has
CloseHandle_destroys(o, hs, h) ==
    IF hs[h].open THEN [o EXCEPT ![hs[h].id] = NoObj] ELSE o

\* CloseHandle: the reference goes; the object goes with its last reference
CloseHandle(o, hs, h) ==
    IF hs[h].open /\ Refs(hs, hs[h].id) = {h}
    THEN [o EXCEPT ![hs[h].id] = NoObj]
    ELSE o

FreeSlots == {h \in Handles : ~handle[h].open}
\* the slot a new handle takes
NewSlot == CHOOSE h \in FreeSlots : \A k \in FreeSlots : h <= k

\* a thread that can make a call: running and not blocked in a wait
Ready(t) == alive[t] /\ wait[t] = NoWait

Mine(t, h) == handle[h].open /\ handle[h].thr = t

\* ------------------------------------------------------------- Init
Init ==
    /\ obj = [i \in Ids |-> NoObj]
    /\ mem = [r \in Records |-> NoId]
    /\ handle = [h \in Handles |-> Closed]
    /\ alive = [t \in Threads |-> TRUE]
    /\ wait = [t \in Threads |-> NoWait]
    /\ ret = NoRet
    /\ excl = [h \in Handles |-> 0]
    /\ shared = [h \in Handles |-> 0]
    /\ data = [r \in Records |-> 0]
    /\ pc = [t \in Threads |-> "free"]
    /\ tmp = [t \in Threads |-> 0]
    /\ iter = [t \in Threads |-> 0]

\* ---------------------------------------------- construction contract
\* release that unwraps the failure instead of returning it
release_unwrap(t, h) ==
    IF ReleaseOwned(obj, t, handle[h].id)
    THEN [ok |-> TRUE, obj |-> ReleaseMutex(obj, t, handle[h].id),
          ret |-> Result("()", "Ok", NoHandle, "none")]
    ELSE [ok |-> FALSE, obj |-> obj, ret |-> Panic(ErrRelease)]

\* release that gives up the ownership whoever holds it
release_force(t, h) ==
    IF obj[handle[h].id].exists /\ obj[handle[h].id].owner # NoThread
    THEN [ok |-> TRUE, obj |-> ReleaseMutex(obj, t, handle[h].id),
          ret |-> Result("()", "Ok", NoHandle, "none")]
    ELSE [ok |-> FALSE, obj |-> obj,
          ret |-> Result("()", "Err", NoHandle, ErrRelease)]

\* Mutex::release
release(t, h) ==
    IF ReleaseOwned(obj, t, handle[h].id)
    THEN [ok |-> TRUE, obj |-> ReleaseMutex(obj, t, handle[h].id),
          ret |-> Result("()", "Ok", NoHandle, "none")]
    ELSE [ok |-> FALSE, obj |-> obj,
          ret |-> Result("()", "Err", NoHandle, ErrRelease)]

\* Mutex::new on record r, the random identifier drawn being id
New(t, r, id) ==
    /\ Ready(t)
    /\ mem[r] = NoId
    /\ FreeSlots # {}
    /\ LET h == NewSlot
           created == CreateMutexExA(obj, t, id)
           hs == [handle EXCEPT ![h] = [open |-> TRUE, thr |-> t, id |-> id, rec |-> r]]
       IN IF ReleaseOwned(created, t, id)
          THEN /\ obj' = ReleaseMutex(created, t, id)
               /\ handle' = hs
               /\ mem' = [mem EXCEPT ![r] = id]
               /\ ret' = Returned("new", Result("Mutex", "Ok", NoHandle, "none"))
          ELSE \* mutex.release()? returns the error; the Box is dropped
               /\ obj' = CloseHandle(created, hs, h)
               /\ handle' = handle
               /\ mem' = mem
               /\ ret' = Returned("new", Result("Mutex", "Err", NoHandle, ErrRelease))
    /\ UNCHANGED <<alive, wait, excl, shared>>

\* from_existing that creates the object when the record names none
FromExisting_creates(t, r) ==
    /\ Ready(t)
    /\ mem[r] # NoId
    /\ FreeSlots # {}
    /\ obj' = CreateMutexExA(obj, t, mem[r])
    /\ handle' = [handle EXCEPT ![NewSlot] =
                     [open |-> TRUE, thr |-> t, id |-> mem[r], rec |-> r]]
    /\ ret' = Returned("from_existing", Result("Mutex", "Ok", NoHandle, "none"))
    /\ UNCHANGED <<mem, alive, wait, excl, shared>>

\* Mutex::from_existing on record r
FromExisting(t, r) ==
    /\ Ready(t)
    /\ mem[r] # NoId
    /\ FreeSlots # {}
    /\ IF obj[mem[r]].exists
       THEN /\ handle' = [handle EXCEPT ![NewSlot] =
                            [open |-> TRUE, thr |-> t, id |-> mem[r], rec |-> r]]
            /\ ret' = Returned("from_existing", Result("Mutex", "Ok", NoHandle, "none"))
       ELSE /\ handle' = handle
            /\ ret' = Returned("from_existing", Result("Mutex", "Err", NoHandle, ErrOpen))
    /\ UNCHANGED <<obj, mem, alive, wait, excl, shared>>

\* Drop for Mutex: the handle is dropped once nothing borrows it
DropMutex(t, h) ==
    /\ Ready(t)
    /\ Mine(t, h)
    /\ excl[h] = 0 /\ shared[h] = 0
    /\ obj' = CloseHandle(obj, handle, h)
    /\ handle' = [handle EXCEPT ![h] = Closed]
    /\ ret' = NoRet
    /\ UNCHANGED <<mem, alive, wait, excl, shared>>

\* ------------------------------------------------- operation contract
\* Mutex::lock that hands out the guard whatever the wait returned
lock_unchecked(h, status) == LockResult("Ok", h, "none")

\* the body of Mutex::lock after its wait returned status: the guard on
\* WAIT_OBJECT_0, a panic on WAIT_ABANDONED, the error otherwise
lock(h, status) ==
    IF status = "WAIT_OBJECT_0" THEN LockResult("Ok", h, "none")
    ELSE IF status = "WAIT_ABANDONED" THEN Panic(ErrPoisoned)
    ELSE LockResult("Failed", NoHandle, ErrAcquire)

\* try_lock that takes the expiry of its wait for an acquisition
try_lock_expiryOk(h, status) ==
    IF status \in {"WAIT_OBJECT_0", "WAIT_TIMEOUT"} THEN LockResult("Ok", h, "none")
    ELSE IF status = "WAIT_ABANDONED" THEN LockResult("Abandoned", h, "none")
    ELSE LockResult("Failed", NoHandle, ErrAcquire)

\* LockImpl::try_lock after its wait returned status. The trait declares
\* it; the backend under src/ does not define it, so this follows the
\* operation contract: Ok / Abandoned / Failed, expiry being Failed.
try_lock(h, status) ==
    IF status = "WAIT_OBJECT_0" THEN LockResult("Ok", h, "none")
    ELSE IF status = "WAIT_ABANDONED" THEN LockResult("Abandoned", h, "none")
    ELSE IF status = "WAIT_TIMEOUT" THEN LockResult("Failed", NoHandle, ErrTimeout)
    ELSE LockResult("Failed", NoHandle, ErrAcquire)

\* LockGuard::into_read_guard as a value: the same borrow, now shared
into_read_guard(h) == h

\* the match of LockImpl::rlock and LockImpl::try_rlock on the exclusive
\* outcome r; a panic of the exclusive acquisition passes through
read_result(r) ==
    IF r.type = "Panic" THEN r
    ELSE IF r.tag = "Ok" THEN ReadLockResult("Ok", into_read_guard(r.guard), "none")
    ELSE IF r.tag = "Abandoned"
    THEN ReadLockResult("Abandoned", into_read_guard(r.guard), "none")
    ELSE ReadLockResult("Failed", NoHandle, r.err)

rlock(h, status) == read_result(lock(h, status))

try_rlock(h, status) == read_result(try_lock(h, status))

\* A thread calls lock / try_lock / rlock / try_rlock on its handle and
\* enters the wait: lock and rlock wait with INFINITE, the try_ variants
\* with the timeout they are given. Nothing reads which of them it was
\* until the wait returns, so the state holds the wait alone.
Wait(t, h, timeout) ==
    /\ Ready(t)
    /\ Mine(t, h)
    /\ obj[handle[h].id].count < MaxGuards
    /\ excl[h] + shared[h] < MaxGuards
    /\ wait' = [wait EXCEPT ![t] = [h |-> h, timeout |-> timeout]]
    /\ ret' = NoRet
    /\ UNCHANGED <<obj, mem, handle, alive, excl, shared>>

\* the guards alive once value v has been returned: LockGuard::new and
\* ReadLockGuard::new
WithGuard(g, v, type) ==
    IF HoldsGuard(v) /\ v.type = type THEN [g EXCEPT ![v.guard] = @ + 1] ELSE g

\* the wait of thread t returns status and the call returns v
Return(t, op, status, v) ==
    /\ alive[t]
    /\ wait[t] # NoWait
    /\ status \in WaitStatuses(obj, t, handle[wait[t].h].id, wait[t].timeout)
    /\ obj' = WaitForSingleObject(obj, t, handle[wait[t].h].id, status)
    /\ ret' = Returned(op, v)
    /\ excl' = WithGuard(excl, v, "LockResult")
    /\ shared' = WithGuard(shared, v, "ReadLockResult")
    /\ wait' = [wait EXCEPT ![t] = NoWait]
    /\ UNCHANGED <<mem, handle, alive>>

\* Mutex::lock returns
LockReturn(t, status) ==
    /\ wait[t].timeout = "Infinite"
    /\ Return(t, "lock", status, lock(wait[t].h, status))

\* try_lock returns
TryLockReturn(t, status) == Return(t, "try_lock", status, try_lock(wait[t].h, status))

\* LockImpl::rlock returns
RLockReturn(t, status) ==
    /\ wait[t].timeout = "Infinite"
    /\ Return(t, "rlock", status, rlock(wait[t].h, status))

\* LockImpl::try_rlock returns
TryRLockReturn(t, status) == Return(t, "try_rlock", status, try_rlock(wait[t].h, status))

\* ----------------------------------------------------- guard lifecycle
\* guard drop that discards the outcome of release()
drop_guard_silent(t, h) ==
    [obj |-> release(t, h).obj, ret |-> Result("()", "Ok", NoHandle, "none")]

\* guard drop: self.lock.release().unwrap()
drop_guard(t, h) ==
    LET r == release(t, h)
    IN [obj |-> r.obj,
        ret |-> IF r.ok THEN Result("()", "Ok", NoHandle, "none")
                ELSE Panic(ErrRelease)]

\* a LockGuard that is leaked instead of dropped: nothing is released
DropLockGuard_leaks(t, h) ==
    /\ Ready(t)
    /\ Mine(t, h)
    /\ excl[h] > 0
    /\ excl' = [excl EXCEPT ![h] = @ - 1]
    /\ ret' = Returned("drop LockGuard", Result("()", "Ok", NoHandle, "none"))
    /\ UNCHANGED <<obj, mem, handle, alive, wait, shared>>

\* Drop for LockGuard
DropLockGuard(t, h) ==
    /\ Ready(t)
    /\ Mine(t, h)
    /\ excl[h] > 0
    /\ excl' = [excl EXCEPT ![h] = @ - 1]
    /\ obj' = drop_guard(t, h).obj
    /\ ret' = Returned("drop LockGuard", drop_guard(t, h).ret)
    /\ UNCHANGED <<mem, handle, alive, wait, shared>>

\* a ReadLockGuard whose drop does not release
DropReadLockGuard_noRelease(t, h) ==
    /\ Ready(t)
    /\ Mine(t, h)
    /\ shared[h] > 0
    /\ shared' = [shared EXCEPT ![h] = @ - 1]
    /\ ret' = Returned("drop ReadLockGuard", Result("()", "Ok", NoHandle, "none"))
    /\ UNCHANGED <<obj, mem, handle, alive, wait, excl>>

\* Drop for ReadLockGuard
DropReadLockGuard(t, h) ==
    /\ Ready(t)
    /\ Mine(t, h)
    /\ shared[h] > 0
    /\ shared' = [shared EXCEPT ![h] = @ - 1]
    /\ obj' = drop_guard(t, h).obj
    /\ ret' = Returned("drop ReadLockGuard", drop_guard(t, h).ret)
    /\ UNCHANGED <<mem, handle, alive, wait, excl>>

\* into_read_guard that lets the source guard drop instead of forgetting it
IntoReadGuard_dropsSource(t, h) ==
    /\ Ready(t)
    /\ Mine(t, h)
    /\ excl[h] > 0
    /\ excl' = [excl EXCEPT ![h] = @ - 1]
    /\ shared' = [shared EXCEPT ![into_read_guard(h)] = @ + 1]
    /\ obj' = drop_guard(t, h).obj
    /\ ret' = Returned("into_read_guard", NoVal)
    /\ UNCHANGED <<mem, handle, alive, wait>>

\* LockGuard::into_read_guard: the source guard is forgotten, not dropped
IntoReadGuard(t, h) ==
    /\ Ready(t)
    /\ Mine(t, h)
    /\ excl[h] > 0
    /\ excl' = [excl EXCEPT ![h] = @ - 1]
    /\ shared' = [shared EXCEPT ![into_read_guard(h)] = @ + 1]
    /\ ret' = Returned("into_read_guard", NoVal)
    /\ UNCHANGED <<obj, mem, handle, alive, wait>>

\* Mutex::release called on the handle itself
ReleaseCall(t, h) ==
    /\ Ready(t)
    /\ Mine(t, h)
    /\ obj' = release(t, h).obj
    /\ ret' = Returned("release", release(t, h).ret)
    /\ UNCHANGED <<mem, handle, alive, wait, excl, shared>>

\* ------------------------------------------------------ deny_abandoned
GuardType(r) == IF r.type = "LockResult" THEN "LockGuard" ELSE "ReadLockGuard"

\* deny_abandoned that lets an Abandoned guard through
deny_abandoned_lenient(r) ==
    IF r.tag \in {"Ok", "Abandoned"} THEN Result(GuardType(r), "Ok", r.guard, "none")
    ELSE Result(GuardType(r), "Err", NoHandle, r.err)

\* LockResult::deny_abandoned and ReadLockResult::deny_abandoned
deny_abandoned(r) ==
    IF r.tag = "Ok" THEN Result(GuardType(r), "Ok", r.guard, "none")
    ELSE IF r.tag = "Abandoned" THEN Result(GuardType(r), "Err", NoHandle, ErrPoisoned)
    ELSE Result(GuardType(r), "Err", NoHandle, r.err)

\* the guards left once deny_abandoned has consumed outcome v of the given
\* type: the guard of an Abandoned outcome is matched by _ and dropped
Denied(g, v, type) ==
    IF v.tag = "Abandoned" /\ v.type = type THEN [g EXCEPT ![v.guard] = @ - 1] ELSE g

\* deny_abandoned that forgets the guard of an Abandoned outcome
DenyAbandoned_forgets(t) ==
    /\ Ready(t)
    /\ ret.val.type \in {"LockResult", "ReadLockResult"}
    /\ HoldsGuard(ret.val) => Mine(t, ret.val.guard)
    /\ excl' = Denied(excl, ret.val, "LockResult")
    /\ shared' = Denied(shared, ret.val, "ReadLockResult")
    /\ ret' = Returned("deny_abandoned", deny_abandoned(ret.val))
    /\ UNCHANGED <<obj, mem, handle, alive, wait>>

\* the thread passes the outcome it has just been returned through
\* deny_abandoned
DenyAbandoned(t) ==
    /\ Ready(t)
    /\ ret.val.type \in {"LockResult", "ReadLockResult"}
    /\ HoldsGuard(ret.val) => Mine(t, ret.val.guard)
    /\ excl' = Denied(excl, ret.val, "LockResult")
    /\ shared' = Denied(shared, ret.val, "ReadLockResult")
    /\ IF ret.val.tag = "Abandoned"
       THEN LET d == drop_guard(t, ret.val.guard)
            IN /\ obj' = d.obj
               /\ ret' = Returned("deny_abandoned",
                            IF d.ret.type = "Panic" THEN d.ret ELSE deny_abandoned(ret.val))
       ELSE /\ obj' = obj
            /\ ret' = Returned("deny_abandoned", deny_abandoned(ret.val))
    /\ UNCHANGED <<mem, handle, alive, wait>>

\* --------------------------------------------------------- termination
\* The thread ends without unwinding (its process is killed): its guards
\* are never dropped, the OS closes its handles and marks the mutexes it
\* owns abandoned.
Terminate(t) ==
    /\ alive[t]
    /\ alive' = [alive EXCEPT ![t] = FALSE]
    /\ wait' = [wait EXCEPT ![t] = NoWait]
    /\ ret' = NoRet
    /\ handle' = [h \in Handles |-> IF Mine(t, h) THEN Closed ELSE handle[h]]
    /\ excl' = [h \in Handles |-> IF Mine(t, h) THEN 0 ELSE excl[h]]
    /\ shared' = [h \in Handles |-> IF Mine(t, h) THEN 0 ELSE shared[h]]
    /\ obj' = [i \in Ids |->
                 IF ~obj[i].exists THEN obj[i]
                 ELSE IF \A h \in Refs(handle, i) : handle[h].thr = t THEN NoObj
                 ELSE IF obj[i].owner = t
                 THEN [obj[i] EXCEPT !.owner = NoThread, !.count = 0, !.abandoned = TRUE]
                 ELSE obj[i]]
    /\ UNCHANGED mem

\* ------------------------------------------------------- specification
\* Clients of the guard interface. The identifier new() draws names no
\* live object here; SpecRelease adds release() called on the handle.
Statuses == {"WAIT_OBJECT_0", "WAIT_ABANDONED", "WAIT_TIMEOUT", "WAIT_FAILED"}

Lib(A) == A /\ UNCHANGED clientvars

Next ==
    \/ \E t \in Threads, r \in Records, id \in Ids :
          ~obj[id].exists /\ Lib(New(t, r, id))
    \/ \E t \in Threads, r \in Records : Lib(FromExisting(t, r))
    \/ \E t \in Threads, h \in Handles : Lib(DropMutex(t, h))
    \/ \E t \in Threads, h \in Handles, d \in Timeout : Lib(Wait(t, h, d))
    \/ \E t \in Threads, s \in Statuses : Lib(LockReturn(t, s))
    \/ \E t \in Threads, s \in Statuses : Lib(TryLockReturn(t, s))
    \/ \E t \in Threads, s \in Statuses : Lib(RLockReturn(t, s))
    \/ \E t \in Threads, s \in Statuses : Lib(TryRLockReturn(t, s))
    \/ \E t \in Threads, h \in Handles : Lib(DropLockGuard(t, h))
    \/ \E t \in Threads, h \in Handles : Lib(DropReadLockGuard(t, h))
    \/ \E t \in Threads, h \in Handles : Lib(IntoReadGuard(t, h))
    \/ \E t \in Threads : Lib(DenyAbandoned(t))
    \/ \E t \in Threads : Lib(Terminate(t))

Spec == Init /\ [][Next]_vars

\* Clients that lock() and also call release() on the handle itself, with
\* or without a guard alive.
NextRelease ==
    \/ \E t \in Threads, r \in Records, id \in Ids :
          ~obj[id].exists /\ Lib(New(t, r, id))
    \/ \E t \in Threads, r \in Records : Lib(FromExisting(t, r))
    \/ \E t \in Threads, h \in Handles : Lib(DropMutex(t, h))
    \/ \E t \in Threads, h \in Handles : Lib(Wait(t, h, "Infinite"))
    \/ \E t \in Threads, s \in Statuses : Lib(LockReturn(t, s))
    \/ \E t \in Threads, h \in Handles : Lib(DropLockGuard(t, h))
    \/ \E t \in Threads, h \in Handles : Lib(ReleaseCall(t, h))

SpecRelease == Init /\ [][NextRelease]_vars

\* ------------------------------------------------- the shared counter
\* NumThreads workers attached to one record, each repeating Iterations
\* times: lock(), read the counter, write it back plus one, drop the guard.
\* Worker t uses handle t; worker 1 built the record with new(), the others
\* attached with from_existing().
TheRecord == CHOOSE r \in Records : TRUE
TheId == CHOOSE i \in Ids : TRUE

InitCounter ==
    /\ obj = [i \in Ids |-> IF i = TheId
                              THEN [exists |-> TRUE, owner |-> NoThread, count |-> 0,
                                    abandoned |-> FALSE]
                              ELSE NoObj]
    /\ mem = [r \in Records |-> IF r = TheRecord THEN TheId ELSE NoId]
    /\ handle = [h \in Handles |->
                   [open |-> TRUE, thr |-> h, id |-> TheId, rec |-> TheRecord]]
    /\ alive = [t \in Threads |-> TRUE]
    /\ wait = [t \in Threads |-> NoWait]
    /\ ret = NoRet
    /\ excl = [h \in Handles |-> 0]
    /\ shared = [h \in Handles |-> 0]
    /\ data = [r \in Records |-> 0]
    /\ pc = [t \in Threads |-> "idle"]
    /\ tmp = [t \in Threads |-> 0]
    /\ iter = [t \in Threads |-> 0]

WLock(t) ==
    /\ pc[t] = "idle"
    /\ Wait(t, t, "Infinite")
    /\ pc' = [pc EXCEPT ![t] = "waiting"]
    /\ UNCHANGED <<data, tmp, iter>>

\* lock() returned: the worker goes on with the guard, or tries again
WLocked(t, status) ==
    /\ pc[t] = "waiting"
    /\ LockReturn(t, status)
    /\ pc' = [pc EXCEPT ![t] = IF HoldsGuard(ret'.val) THEN "read" ELSE "idle"]
    /\ UNCHANGED <<data, tmp, iter>>

WRead(t) ==
    /\ pc[t] = "read"
    /\ tmp' = [tmp EXCEPT ![t] = data[TheRecord]]
    /\ pc' = [pc EXCEPT ![t] = "write"]
    /\ UNCHANGED <<data, iter>>
    /\ UNCHANGED libvars

WWrite(t) ==
    /\ pc[t] = "write"
    /\ data' = [data EXCEPT ![TheRecord] = tmp[t] + 1]
    /\ pc' = [pc EXCEPT ![t] = "drop"]
    /\ UNCHANGED <<tmp, iter>>
    /\ UNCHANGED libvars

WDrop(t) ==
    /\ pc[t] = "drop"
    /\ DropLockGuard(t, t)
    /\ iter' = [iter EXCEPT ![t] = @ + 1]
    /\ pc' = [pc EXCEPT ![t] = IF iter[t] + 1 = Iterations THEN "done" ELSE "idle"]
    /\ UNCHANGED <<data, tmp>>

NextCounter ==
    \/ \E t \in Threads : WLock(t)
    \/ \E t \in Threads, s \in Statuses : WLocked(t, s)
    \/ \E t \in Threads : WRead(t)
    \/ \E t \in Threads : WWrite(t)
    \/ \E t \in Threads : WDrop(t)

SpecCounter == InitCounter /\ [][NextCounter]_vars

\* ------------------------------------------------------------ claims
Guards(h) == excl[h] + shared[h]

\* the live exclusive guards on record r, over all handles and threads
ExclusiveGuards(r) ==
    Cardinality({p \in Handles \X (1..MaxGuards) :
                    handle[p[1]].open /\ handle[p[1]].rec = r /\ p[2] <= excl[p[1]]})

\* C1: for each lock record, at most one exclusive guard is outstanding
\* across all processes and threads attached to it.
C1_MutualExclusion == \A r \in Records : ExclusiveGuards(r) <= 1

\* C2: when every worker has finished its Iterations rounds of lock, read,
\* write back plus one, drop, the counter is NumThreads * Iterations.
C2_NoLostUpdates ==
    (\A t \in Threads : pc[t] = "done") => data[TheRecord] = NumThreads * Iterations

C2_Witness ==
    /\ \A t \in Threads : pc[t] = "done" /\ iter[t] = Iterations
    /\ data[TheRecord] > 0

\* the thread whose wait returns in this step
Returning(t) == wait[t] # NoWait /\ wait'[t] = NoWait /\ alive'[t]

\* C3: the handle new() returned and a handle from_existing() returned on
\* the same record (every handle on a record is one or the other) are one
\* lock: while one carries a guard the other carries none, and while no
\* thread has terminated no acquisition comes back Abandoned or poisoned.
C3_HandlesInteroperate ==
    /\ \A h1, h2 \in Handles :
          (/\ h1 # h2
           /\ handle[h1].open /\ handle[h2].open
           /\ handle[h1].rec = handle[h2].rec
           /\ Guards(h1) > 0) => Guards(h2) = 0
    /\ (\A t \in Threads : alive[t]) =>
          /\ ret.val.tag # "Abandoned"
          /\ ret.val # Panic(ErrPoisoned)

\* C4: once a guard, exclusive or shared, has been dropped, the thread that
\* held it no longer owns the lock and another waiter can take it.
C4_DropFreesLock ==
    [][\A h \in Handles :
          (/\ ret'.op \in {"drop LockGuard", "drop ReadLockGuard"}
           /\ Guards(h)' < Guards(h))
          => /\ obj'[handle[h].id].owner # handle[h].thr
             /\ \A u \in Threads : Signalled(obj', u, handle[h].id)]_vars

\* C5: while a shared guard is alive, from into_read_guard() until its drop,
\* its thread still owns the lock, no other thread holds a guard on the
\* object, and no wait of another thread on it can return an acquisition.
C5_ConversionKeepsLock ==
    \A h \in Handles : shared[h] > 0 =>
        /\ obj[handle[h].id].owner = handle[h].thr
        /\ \A u \in Threads \ {handle[h].thr} :
              /\ \A k \in Handles :
                    Mine(u, k) /\ handle[k].id = handle[h].id => Guards(k) = 0
              /\ \A d \in Timeout :
                    WaitStatuses(obj, u, handle[h].id, d)
                        \cap {"WAIT_OBJECT_0", "WAIT_ABANDONED"} = {}

C5_Witness ==
    /\ ret.op = "into_read_guard"
    /\ \E h \in Handles, u \in Threads :
          /\ shared[h] > 0
          /\ u # handle[h].thr
          /\ wait[u] # NoWait
          /\ handle[wait[u].h].id = handle[h].id

\* the live guards, of both kinds, on the handles to object id
GuardsOnId(hs, e, s, id) ==
    Cardinality({p \in Handles \X (1..MaxGuards) :
                    hs[p[1]].open /\ hs[p[1]].id = id /\ p[2] <= e[p[1]] + s[p[1]]})

\* C6: release happens once per guard: a conversion releases nothing, the
\* destruction of a guard gives up exactly one level of ownership, and
\* ownership is given up only by the destruction of a guard.
C6_ReleaseOnce ==
    [][\A id \in Ids :
          (obj[id].exists /\ obj'[id].exists /\ alive' = alive) =>
             LET g == GuardsOnId(handle, excl, shared, id)
                 g2 == GuardsOnId(handle', excl', shared', id)
             IN /\ ret'.op = "into_read_guard" => obj' = obj /\ g2 = g
                /\ g2 < g => g2 = g - 1 /\ obj'[id].count = obj[id].count - 1
                /\ obj'[id].count < obj[id].count =>
                      g2 = g - 1 /\ obj'[id].count = obj[id].count - 1]_vars

C6_Witness ==
    /\ ret = Returned("drop ReadLockGuard", Result("()", "Ok", NoHandle, "none"))
    /\ \A id \in Ids : obj[id].owner = NoThread
    /\ \A h \in Handles : Guards(h) = 0

\* C7: release() by a thread that does not own the lock returns the release
\* error as a value, changes nothing, and no release() call panics.
C7_ReleaseNotHeld ==
    /\ [](\A t \in Threads, h \in Handles :
            (Ready(t) /\ Mine(t, h) /\ obj[handle[h].id].owner # t) =>
                /\ release(t, h).ret = Result("()", "Err", NoHandle, ErrRelease)
                /\ release(t, h).obj = obj)
    /\ [][ret'.op = "release" =>
            /\ alive' = alive
            /\ ret'.val.type = "()"
            /\ ret'.val.tag = "Err" => obj' = obj /\ ret'.val.err = ErrRelease
            /\ ret'.val.tag = "Ok" =>
                  \E id \in Ids : /\ obj[id].owner # NoThread
                                  /\ obj'[id].count = obj[id].count - 1]_vars

C7_Witness ==
    /\ ret = Returned("release", Result("()", "Err", NoHandle, ErrRelease))
    /\ \A t \in Threads : alive[t]

\* C8: lock() that acquires a lock its previous holder abandoned returns
\* Abandoned with a guard; a clean acquisition returns Ok with a guard; any
\* other wait status returns Failed and takes nothing.
C8_LockOutcomes ==
    [][\A t \in Threads :
          (ret'.op = "lock" /\ Returning(t)) =>
             LET h == wait[t].h
                 id == handle[h].id
             IN IF obj'[id].count = obj[id].count + 1
                THEN /\ ret'.val = LockResult(IF obj[id].abandoned THEN "Abandoned" ELSE "Ok",
                                              h, "none")
                     /\ excl'[h] = excl[h] + 1
                ELSE /\ ret'.val.tag = "Failed"
                     /\ obj' = obj /\ excl' = excl]_vars

\* C9: deny_abandoned() maps Ok(guard) to the guard and maps Abandoned and
\* Failed to an error, the error of Failed being the one it carried, for
\* lock results and read-lock results alike.
C9_DenyAbandoned ==
    [][ret'.op = "deny_abandoned" =>
          /\ ret.val.type \in {"LockResult", "ReadLockResult"}
          /\ ret'.val.type = (IF ret.val.type = "LockResult"
                              THEN "LockGuard" ELSE "ReadLockGuard")
          /\ ret.val.tag \in {"Ok", "Abandoned", "Failed"}
          /\ ret.val.tag = "Ok" =>
                ret'.val.tag = "Ok" /\ ret'.val.guard = ret.val.guard
          /\ ret.val.tag = "Abandoned" =>
                ret'.val.tag = "Err" /\ ret'.val.guard = NoHandle
          /\ ret.val.tag = "Failed" =>
                /\ ret'.val.tag = "Err" /\ ret'.val.guard = NoHandle
                /\ ret'.val.err = ret.val.err]_vars

C9_Witness ==
    /\ ret.op = "deny_abandoned"
    /\ ret.val = Result("ReadLockGuard", "Err", NoHandle, ErrPoisoned)

\* C10: a bounded try_lock on a lock another thread keeps holding can only
\* return Failed, and when it returns at expiry nothing has changed: no
\* guard was made, the owner and its count are as before.
C10_TimeoutNoEffect ==
    /\ [](\A t \in Threads :
            (/\ alive[t] /\ wait[t].timeout = "Val"
             /\ obj[handle[wait[t].h].id].owner \notin {NoThread, t}) =>
                \A s \in WaitStatuses(obj, t, handle[wait[t].h].id, "Val") :
                    /\ try_lock(wait[t].h, s).tag = "Failed"
                    /\ ~HoldsGuard(try_lock(wait[t].h, s))
                    /\ WaitForSingleObject(obj, t, handle[wait[t].h].id, s) = obj)
    /\ [][(ret'.op = "try_lock" /\ \E t \in Threads :
              /\ Returning(t)
              /\ wait[t].timeout = "Val"
              /\ obj[handle[wait[t].h].id].owner \notin {NoThread, t}) =>
            /\ ret'.val.tag = "Failed" /\ ret'.val.guard = NoHandle
            /\ obj' = obj /\ excl' = excl /\ shared' = shared
            /\ handle' = handle]_vars

C10_Witness ==
    /\ ret = Returned("try_lock", LockResult("Failed", NoHandle, ErrTimeout))
    /\ \E id \in Ids : obj[id].owner # NoThread
    /\ \E h \in Handles : excl[h] > 0

\* C11: try_lock(Timeout::Infinite) is lock(): for every status the
\* unbounded wait of a thread can return now, both return the same outcome
\* (the wait, and so the blocking and the resulting lock state, is the same
\* WaitForSingleObject(handle, INFINITE) for both).
C11_TryLockInfiniteIsLock ==
    \A t \in Threads :
        (alive[t] /\ wait[t].timeout = "Infinite") =>
            \A s \in WaitStatuses(obj, t, handle[wait[t].h].id, "Infinite") :
                try_lock(wait[t].h, s) = lock(wait[t].h, s)

\* ------------------------------------------- new() and name collisions
\* A record elsewhere: a region outside Records on which an earlier new()
\* ran. Its handles carry this record number.
Elsewhere == 0

\* The states a new() on a record of Records can start from when an
\* identifier may already be in use: thread u has built a lock elsewhere,
\* whose identifier is TheId, and holds n guards on it.
InitNew ==
    /\ \E u \in Threads, n \in 0..(MaxGuards - 1) :
          /\ obj = [i \in Ids |->
                      IF i = TheId
                      THEN [exists |-> TRUE, owner |-> IF n > 0 THEN u ELSE NoThread,
                            count |-> n, abandoned |-> FALSE]
                      ELSE NoObj]
          /\ handle = [h \in Handles |->
                         IF h = 1
                         THEN [open |-> TRUE, thr |-> u, id |-> TheId, rec |-> Elsewhere]
                         ELSE Closed]
          /\ excl = [h \in Handles |-> IF h = 1 THEN n ELSE 0]
    /\ mem = [r \in Records |-> NoId]
    /\ alive = [t \in Threads |-> TRUE]
    /\ wait = [t \in Threads |-> NoWait]
    /\ ret = NoRet
    /\ shared = [h \in Handles |-> 0]
    /\ data = [r \in Records |-> 0]
    /\ pc = [t \in Threads |-> "free"]
    /\ tmp = [t \in Threads |-> 0]
    /\ iter = [t \in Threads |-> 0]

\* new() with any identifier the random draw can give, in use or not
NextNew ==
    \/ \E t \in Threads, r \in Records, id \in Ids : Lib(New(t, r, id))
    \/ \E t \in Threads, r \in Records : Lib(FromExisting(t, r))
    \/ \E t \in Threads, h \in Handles : Lib(DropMutex(t, h))
    \/ \E t \in Threads, h \in Handles : Lib(Wait(t, h, "Infinite"))
    \/ \E t \in Threads, s \in Statuses : Lib(LockReturn(t, s))
    \/ \E t \in Threads, h \in Handles : Lib(DropLockGuard(t, h))

SpecNew == InitNew /\ [][NextNew]_vars

\* the record a successful new() has just written
Written(r) == ret'.op = "new" /\ ret'.val.tag = "Ok" /\ mem'[r] # mem[r]

\* C12: when new() returns successfully the lock of the record it wrote is
\* unheld: no thread owns the object, and an unbounded wait on it by any
\* thread, the creator or an attached one, returns WAIT_OBJECT_0 at once.
C12_NewLeavesUnheld ==
    [][\A r \in Records :
          Written(r) =>
             /\ obj'[mem'[r]].exists
             /\ obj'[mem'[r]].owner = NoThread
             /\ obj'[mem'[r]].count = 0
             /\ \A u \in Threads :
                   WaitStatuses(obj', u, mem'[r], "Infinite")
                       = {"WAIT_OBJECT_0", "WAIT_FAILED"}]_vars

\* C13: new() never fails on a name in use but draws again, so that the
\* identifier it writes to the record names an object this call created:
\* an object that did not exist before the call and that no handle of
\* another record refers to.
C13_NewCreatesFreshObject ==
    [][ret'.op = "new" =>
          /\ ret'.val.tag = "Ok"
          /\ \A r \in Records :
                Written(r) =>
                   /\ ~obj[mem'[r]].exists
                   /\ \A h \in Handles :
                         (handle'[h].open /\ handle'[h].id = mem'[r])
                             => handle'[h].rec = r]_vars

\* C14: from_existing() on a record whose identifier names no existing
\* object returns the attach error and no handle; when the object exists
\* it returns one new handle to it. Either way it creates no object, takes
\* no ownership and leaves the record, the lock and the guards as they were.
C14_FromExisting ==
    [][ret'.op = "from_existing" =>
          /\ obj' = obj /\ mem' = mem /\ excl' = excl /\ shared' = shared
          /\ \E r \in Records :
                /\ mem[r] # NoId
                /\ IF obj[mem[r]].exists
                   THEN /\ ret'.val = Result("Mutex", "Ok", NoHandle, "none")
                        /\ \E h \in Handles :
                              /\ ~handle[h].open
                              /\ handle'[h].open
                              /\ handle'[h].id = mem[r] /\ handle'[h].rec = r
                              /\ \A k \in Handles \ {h} : handle'[k] = handle[k]
                   ELSE /\ ret'.val = Result("Mutex", "Err", NoHandle, ErrOpen)
                        /\ handle' = handle]_vars

C14_Witness ==
    /\ ret = Returned("from_existing", Result("Mutex", "Err", NoHandle, ErrOpen))
    /\ \E r \in Records : mem[r] # NoId /\ ~obj[mem[r]].exists

\* C15: an object exists exactly while some handle to it is open. Dropping
\* a handle closes that reference alone: while another handle stays open
\* the object, its owner and the other handles are as before, whichever
\* handle was the creator's, and the object is gone with its last handle.
C15_HandleLifetime ==
    /\ [](\A id \in Ids : obj[id].exists <=> Refs(handle, id) # {})
    /\ [][\A h \in Handles :
            (handle[h].open /\ ~handle'[h].open /\ alive' = alive) =>
               /\ \A k \in Handles \ {h} : handle'[k] = handle[k]
               /\ IF Refs(handle', handle[h].id) # {}
                  THEN obj' = obj
                  ELSE obj' = [obj EXCEPT ![handle[h].id] = NoObj]]_vars

\* the creator's handle (the first slot) has been dropped and the lock is
\* held through a handle that attached later
C15_Witness ==
    /\ ~handle[1].open
    /\ \E h \in Handles :
          /\ handle[h].open
          /\ excl[h] > 0
          /\ obj[handle[h].id].owner = handle[h].thr
    /\ \A t \in Threads : alive[t]

\* all live guards, shared and exclusive, on the handles of record r
GuardsOnRecord(r) ==
    Cardinality({p \in Handles \X (1..MaxGuards) :
                    handle[p[1]].open /\ handle[p[1]].rec = r /\ p[2] <= Guards(p[1])})

\* C16: rlock() and try_rlock() acquire exclusively: while a shared guard
\* is live on a record it is the only guard of either kind on that record,
\* and the read-lock outcome has the variant of the lock outcome under it.
C16_ReadLockExclusive ==
    /\ \A h \in Handles :
          (handle[h].open /\ shared[h] > 0) => GuardsOnRecord(handle[h].rec) = 1
    /\ \A t \in Threads :
          (alive[t] /\ wait[t] # NoWait) =>
             \A s \in WaitStatuses(obj, t, handle[wait[t].h].id, wait[t].timeout) :
                /\ try_rlock(wait[t].h, s).tag = try_lock(wait[t].h, s).tag
                /\ wait[t].timeout = "Infinite" =>
                      rlock(wait[t].h, s).tag = lock(wait[t].h, s).tag

\* ------------------------------------------------ out-of-band release
\* A thread that builds a lock, takes guards of both kinds on it and also
\* calls release() on the handle while they are alive.
NextOutOfBand ==
    \/ \E t \in Threads, r \in Records, id \in Ids :
          ~obj[id].exists /\ Lib(New(t, r, id))
    \/ \E t \in Threads, h \in Handles : Lib(Wait(t, h, "Infinite"))
    \/ \E t \in Threads, s \in Statuses : Lib(LockReturn(t, s))
    \/ \E t \in Threads, s \in Statuses : Lib(RLockReturn(t, s))
    \/ \E t \in Threads, h \in Handles : Lib(IntoReadGuard(t, h))
    \/ \E t \in Threads, h \in Handles : Lib(DropLockGuard(t, h))
    \/ \E t \in Threads, h \in Handles : Lib(DropReadLockGuard(t, h))
    \/ \E t \in Threads, h \in Handles : Lib(ReleaseCall(t, h))

SpecOutOfBand == Init /\ [][NextOutOfBand]_vars

\* C17: the destruction of a guard, exclusive or shared, whose thread no
\* longer owns the lock (it was released through release() on the handle)
\* panics with the release error and changes nothing; the destruction of a
\* guard whose thread owns the lock releases one level and returns.
C17_DropReleaseFailureFatal ==
    [][\A h \in Handles :
          (/\ ret'.op \in {"drop LockGuard", "drop ReadLockGuard"}
           /\ Guards(h)' = Guards(h) - 1) =>
             IF obj[handle[h].id].owner = handle[h].thr
             THEN /\ ret'.val = Result("()", "Ok", NoHandle, "none")
                  /\ obj'[handle[h].id].count = obj[handle[h].id].count - 1
             ELSE /\ ret'.val = Panic(ErrRelease)
                  /\ obj' = obj]_vars

C17_Witness ==
    /\ ret = Returned("drop ReadLockGuard", Panic(ErrRelease))
    /\ \A id \in Ids : obj[id].exists => obj[id].owner = NoThread

\* another thread than t owns the lock behind handle h of thread t
HeldByOther(t, h) ==
    /\ Ready(t) /\ Mine(t, h)
    /\ obj[handle[h].id].owner \notin {NoThread, t}

\* C18: release() by a thread that does not hold the lock, while another
\* thread holds it, fails and leaves the lock with its holder: the owner
\* and its count are unchanged, and a release() step changes the owner of
\* an object only by freeing it for the thread that owned it.
C18_FailedReleaseNoOp ==
    /\ [](\A t \in Threads, h \in Handles :
            HeldByOther(t, h) =>
                /\ ~release(t, h).ok
                /\ release(t, h).obj = obj)
    /\ [][ret'.op = "release" =>
            /\ excl' = excl /\ shared' = shared /\ handle' = handle
            /\ ret'.val.tag = "Err" => obj' = obj
            /\ \A id \in Ids :
                  obj'[id] # obj[id] =>
                     /\ ret'.val.tag = "Ok"
                     /\ obj[id].owner # NoThread
                     /\ obj'[id].owner \in {NoThread, obj[id].owner}]_vars

C18_Witness ==
    /\ ret = Returned("release", Result("()", "Err", NoHandle, ErrRelease))
    /\ \E h \in Handles :
          /\ handle[h].open /\ excl[h] > 0
          /\ obj[handle[h].id].owner = handle[h].thr
          /\ obj[handle[h].id].count = excl[h]
          /\ \E k \in Handles : handle[k].open /\ handle[k].id = handle[h].id
                                   /\ handle[k].thr # handle[h].thr

Fairness ==
    /\ \A t \in Threads :
          /\ WF_vars(WLock(t))
          /\ WF_vars(WRead(t))
          /\ WF_vars(WWrite(t))
          /\ WF_vars(WDrop(t))
    /\ SF_vars(\E t \in Threads : WLocked(t, "WAIT_OBJECT_0"))

SpecLive == InitCounter /\ [][NextCounter]_vars /\ Fairness

\* some worker is blocked in lock() on the record
Blocked == \E t \in Threads : pc[t] = "waiting" /\ wait[t] # NoWait

\* a lock() call on the record has just returned a guard
Acquired == ret.op = "lock" /\ HoldsGuard(ret.val)

\* C20: whenever some worker is blocked in lock() on the record, a lock()
\* call on the record eventually returns a guard.
C20_Progress == Blocked ~> Acquired

\* a worker blocked in lock() while another worker, which has completed a
\* round before, holds the guard
C20_Witness ==
    \E t, u \in Threads :
        /\ t # u
        /\ pc[t] = "waiting"
        /\ obj[TheId].owner = u /\ excl[u] = 1
        /\ iter[u] > 0

====
